---- MODULE Spec2Model ----
(***************************************************************************)
(* Model of src/app.py: the Streamlit page that fetches a ticker's bars    *)
(* (get_data), scores them (calculate_super_score), picks the narrative    *)
(* tier (generate_narrative_summary) and shows the score badge.            *)
(*                                                                         *)
(* Python values are modelled as tagged cells: a number, the float NaN,    *)
(* or the object None.  shortPercentOfFloat is kept in hundredths          *)
(* (0.15 is Num(15)), so the literal 0.2 of the source is Num(20) here.    *)
(* The reason strings are modelled by one label per string; the number     *)
(* formatted into the short-squeeze string is not modelled.                *)
(***************************************************************************)
EXTENDS Integers, Sequences, FiniteSets, TLC

(* ------------------------------ bounds -------------------------------- *)

\* Longest bar history the model builds (the lookback df['OBV'].iloc[-10]
\* needs 10 rows, the spec's "10 bars prior" needs 11).
MaxBars == 11

\* Largest score handed to the narrative and badge functions on their own.
MaxScore == 100

(* ------------------------- Python cell values ------------------------- *)

Num(x) == [t |-> "num", v |-> x]
NaN == [t |-> "nan", v |-> 0]
None == [t |-> "none", v |-> 0]

\* Python's ordering comparison raises TypeError when an operand is None.
CmpRaises(a, b) == a.t = "none" \/ b.t = "none"

\* a > b, a < b, a <= b on floats: False whenever an operand is NaN.
Gt(a, b) == a.t = "num" /\ b.t = "num" /\ a.v > b.v
Lt(a, b) == a.t = "num" /\ b.t = "num" /\ a.v < b.v
Le(a, b) == a.t = "num" /\ b.t = "num" /\ a.v <= b.v

Min2(a, b) == IF a < b THEN a ELSE b
Max2(a, b) == IF a > b THEN a ELSE b

(* --------------------------- column names ----------------------------- *)

k_line == "STOCHk_14_3_3"
d_line == "STOCHd_14_3_3"
BaseColumns == {"SMA_5", "SMA_10", "SMA_50", "MFI", "OBV"}
StochColumns == {k_line, d_line}

\* dict.get(key, default)
Get(d, key, default) == IF key \in DOMAIN d THEN d[key] ELSE default

\* DataFrame.empty, and the number of rows
Empty(d) == Len(d.rows) = 0
NRows(d) == Len(d.rows)

\* What a positional read past the start of the frame yields instead of a row.
OutOfBounds == [t |-> "IndexError", v |-> 0]

RowFromEnd_Wraps(d, back) ==
  d.rows[Max2(1, NRows(d) - back + 1)]

\* df.iloc[-back]: the row `back` positions from the end (iloc[-1] is the
\* latest bar), out of bounds when the frame has fewer than `back` rows.
RowFromEnd(d, back) ==
  IF back <= NRows(d) THEN d.rows[NRows(d) - back + 1] ELSE OutOfBounds

(* ----------------------- calculate_super_score ------------------------ *)

Running(score, reasons) == [kind |-> "running", score |-> score, reasons |-> reasons]
Raise(e) == [kind |-> "raise", exc |-> e]
Return(score, reasons) == [kind |-> "return", score |-> score, reasons |-> reasons]

Add_Prepends(acc, delta, reason) ==
  Running(acc.score + delta, <<reason>> \o acc.reasons)

\* score += delta; reasons.append(reason)
Add(acc, delta, reason) ==
  Running(acc.score + delta, Append(acc.reasons, reason))

Clamp_NoUpper(score) == Max2(0, score)

\* max(0, min(100, int(score))): score is an int throughout
Clamp(score) == Max2(0, Min2(100, score))

\* 1. trend: MA5 against MA50 on the latest bar
TrendRule(acc, last) ==
  IF acc.kind = "raise" THEN acc
  ELSE IF CmpRaises(last["SMA_5"], last["SMA_50"]) THEN Raise("TypeError")
  ELSE IF Gt(last["SMA_5"], last["SMA_50"]) THEN Add(acc, 15, "trend_up")
  ELSE IF Lt(last["SMA_5"], last["SMA_50"]) THEN Add(acc, 0 - 15, "trend_down")
  ELSE acc

\* 2a. momentum: MA5 crossing above MA10 between the previous and latest bar
MaCrossRule(acc, last, prev) ==
  IF acc.kind = "raise" THEN acc
  ELSE IF CmpRaises(last["SMA_5"], last["SMA_10"]) THEN Raise("TypeError")
  ELSE IF ~Gt(last["SMA_5"], last["SMA_10"]) THEN acc
  ELSE IF CmpRaises(prev["SMA_5"], prev["SMA_10"]) THEN Raise("TypeError")
  ELSE IF Le(prev["SMA_5"], prev["SMA_10"]) THEN Add(acc, 10, "ma_cross")
  ELSE acc

\* 2b. momentum: stochastic K against D, read only when both columns exist
KDRule(acc, d, last) ==
  IF acc.kind = "raise" THEN acc
  ELSE IF ~(k_line \in d.columns /\ d_line \in d.columns) THEN acc
  ELSE IF CmpRaises(last[k_line], last[d_line]) THEN Raise("TypeError")
  ELSE IF Gt(last[k_line], last[d_line]) /\ Lt(last[k_line], Num(50))
       THEN Add(acc, 10, "kd_gold")
  ELSE IF Lt(last[k_line], last[d_line]) /\ Gt(last[k_line], Num(80))
       THEN Add(acc, 0 - 10, "kd_dead")
  ELSE acc

\* the elif of the institutional rule
MfiOversold(acc, last) ==
  IF Lt(last["MFI"], Num(20)) THEN Add(acc, 5, "mfi_oversold") ELSE acc

\* 3. institutional flow: MFI with the OBV lookback df['OBV'].iloc[-10]
InstitutionRule(acc, d, last) ==
  IF acc.kind = "raise" THEN acc
  ELSE IF CmpRaises(last["MFI"], Num(80)) THEN Raise("TypeError")
  ELSE IF ~Gt(last["MFI"], Num(80)) THEN MfiOversold(acc, last)
  ELSE IF RowFromEnd(d, 10) = OutOfBounds THEN Raise("IndexError")
  ELSE IF CmpRaises(last["OBV"], RowFromEnd(d, 10)["OBV"]) THEN Raise("TypeError")
  ELSE IF Gt(last["OBV"], RowFromEnd(d, 10)["OBV"]) THEN Add(acc, 10, "mfi_obv")
  ELSE MfiOversold(acc, last)

ShortRiskRule_At25(acc, i) ==
  IF acc.kind = "raise" THEN acc
  ELSE LET short_pct == Get(i, "shortPercentOfFloat", Num(0))
       IN  IF CmpRaises(short_pct, Num(25)) THEN Raise("TypeError")
           ELSE IF Gt(short_pct, Num(25)) THEN Add(acc, 15, "short_squeeze")
           ELSE acc

\* 4. short risk: info.get('shortPercentOfFloat', 0) > 0.2
ShortRiskRule(acc, i) ==
  IF acc.kind = "raise" THEN acc
  ELSE LET short_pct == Get(i, "shortPercentOfFloat", Num(0))
       IN  IF CmpRaises(short_pct, Num(20)) THEN Raise("TypeError")
           ELSE IF Gt(short_pct, Num(20)) THEN Add(acc, 15, "short_squeeze")
           ELSE acc

\* return max(0, min(100, int(score))), reasons
Finish(acc) ==
  IF acc.kind = "raise" THEN acc ELSE Return(Clamp(acc.score), acc.reasons)

calculate_super_score(d, i) ==
  IF d = None \/ Empty(d) \/ i = None THEN Return(50, <<>>)
  ELSE IF RowFromEnd(d, 2) = OutOfBounds THEN Raise("IndexError")
  ELSE LET last == RowFromEnd(d, 1)
           prev == RowFromEnd(d, 2)
           s1 == TrendRule(Running(50, <<>>), last)
           s2 == MaCrossRule(s1, last, prev)
           s3 == KDRule(s2, d, last)
           s4 == InstitutionRule(s3, d, last)
           s5 == ShortRiskRule(s4, i)
       IN  Finish(s5)

(* ------------- generate_narrative_summary and the badge --------------- *)

generate_narrative_summary(score) ==
  IF score >= 80 THEN "strong-buy"
  ELSE IF score >= 65 THEN "cautious-optimistic"
  ELSE IF score >= 45 THEN "neutral-watch"
  ELSE "avoid-risk"

ScoreBadge_Strict(score) ==
  IF score > 80 THEN "success"
  ELSE IF score > 65 THEN "warning"
  ELSE IF score > 45 THEN "info"
  ELSE "error"

\* st.success / st.warning / st.info / st.error under the score metric
ScoreBadge(score) ==
  IF score >= 80 THEN "success"
  ELSE IF score >= 65 THEN "warning"
  ELSE IF score >= 45 THEN "info"
  ELSE "error"

(* --------------------------- input families --------------------------- *)

\* A variable that holds nothing yet.
Unset == [t |-> "unset", v |-> 0]

SmaCells == {None, NaN, Num(1), Num(2)}
Sma50Cells == {None, NaN, Num(1), Num(3)}
Sma10Cells == {None, NaN, Num(1)}
PrevSma5Cells == {Num(1), Num(2)}
StochKCells == {NaN, Num(40), Num(90)}
StochDCells == {Num(30), Num(95)}
MfiCells == {None, NaN, Num(10), Num(50), Num(90)}
ObvRefCells == {Num(0), Num(2)}
ShortCells == {None, Num(0), Num(15), Num(25)}
AllColumns == BaseColumns \cup StochColumns
ColumnSets == {BaseColumns, AllColumns}

MkRow(cols, sma5, sma10, sma50, k, dd, mfi, obv) ==
  [c \in cols |->
     CASE c = "SMA_5" -> sma5
       [] c = "SMA_10" -> sma10
       [] c = "SMA_50" -> sma50
       [] c = k_line -> k
       [] c = d_line -> dd
       [] c = "MFI" -> mfi
       [] OTHER -> obv]

\* A bar inside the indicators' warm-up: no SMA, stochastic or MFI value yet.
FillerRow(cols, obv) == MkRow(cols, NaN, NaN, NaN, NaN, NaN, NaN, obv)

\* df[c] = None makes the whole column None, not one cell of it.
WholeColumn(row, last) ==
  [c \in DOMAIN row |-> IF last[c] = None THEN None ELSE row[c]]

\* The frame of n bars whose latest bar is last, the one before it prev, and
\* whose OBV 9 and 10 bars before the latest is ref9 and ref10.
MkFrame(n, cols, last, prev, ref9, ref10) ==
  LET fill == WholeColumn(FillerRow(cols, Num(1)), last)
  IN  [columns |-> cols,
       rows |-> [j \in 1..n |->
          IF j = n THEN last
          ELSE IF j = n - 1 THEN WholeColumn(prev, last)
          ELSE IF j = n - 9 THEN [fill EXCEPT !["OBV"] = ref9]
          ELSE IF j = n - 10 THEN [fill EXCEPT !["OBV"] = ref10]
          ELSE fill]]

\* Frames with the full history of MaxBars bars: every rule's cells vary.
FullFrames ==
  { MkFrame(MaxBars, cols,
            MkRow(cols, l5, l10, l50, k, dd, mfi, Num(1)),
            MkRow(cols, p5, Num(1), NaN, NaN, NaN, NaN, Num(1)), r9, r10) :
      cols \in ColumnSets, l5 \in SmaCells, l10 \in Sma10Cells, l50 \in Sma50Cells,
      p5 \in PrevSma5Cells,
      k \in StochKCells, dd \in StochDCells, mfi \in MfiCells,
      r9 \in ObvRefCells, r10 \in ObvRefCells }

\* Frames with a shorter history (0 bars up to MaxBars - 1).
ShortFrames ==
  { MkFrame(n, AllColumns,
            MkRow(AllColumns, l5, Num(1), Num(1), NaN, NaN, mfi, Num(1)),
            FillerRow(AllColumns, Num(1)), r9, r10) :
      n \in 0..(MaxBars - 1), l5 \in SmaCells, mfi \in MfiCells,
      r9 \in ObvRefCells, r10 \in ObvRefCells }

Frames == FullFrames \cup ShortFrames

\* The metadata mappings: shortPercentOfFloat missing, null or a number.
Infos ==
  { [key \in {} |-> None] } \cup
  { [key \in {"shortPercentOfFloat"} |-> v] : v \in ShortCells }

(* ------------------------------- state -------------------------------- *)

VARIABLES pc, df, info, result, crash, shown

vars == <<pc, df, info, result, crash, shown>>

\* What the report card shows for a score: the metric, the badge, the narrative.
Report(score) ==
  [super_score |-> score,
   narrative |-> generate_narrative_summary(score),
   badge |-> ScoreBadge(score)]

(* ------------------------ the page script (Spec) ---------------------- *)

Init ==
  /\ pc = "get_data"
  /\ df = Unset /\ info = Unset /\ result = Unset
  /\ crash = Unset /\ shown = Unset

\* get_data returns (df, info)
GetDataOk ==
  /\ pc = "get_data"
  /\ \E f \in Frames, i \in Infos : df' = f /\ info' = i
  /\ pc' = "title"
  /\ UNCHANGED <<result, crash, shown>>

\* get_data's except branch: return None, None
GetDataFail ==
  /\ pc = "get_data"
  /\ df' = None /\ info' = None
  /\ pc' = "title"
  /\ UNCHANGED <<result, crash, shown>>

get_data == GetDataOk \/ GetDataFail

\* st.title(f"...{info.get('longName', ticker_symbol)}...")
RenderTitle ==
  /\ pc = "title"
  /\ IF info = None
       THEN pc' = "crashed" /\ crash' = [at |-> "title", exc |-> "AttributeError"]
       ELSE pc' = "guard" /\ crash' = crash
  /\ UNCHANGED <<df, info, result, shown>>

\* if df is not None and not df.empty and info is not None:
AvailabilityGuard ==
  /\ pc = "guard"
  /\ IF df # None /\ ~Empty(df) /\ info # None
       THEN pc' = "score"
       ELSE pc' = "done"
  /\ UNCHANGED <<df, info, result, crash, shown>>

\* super_score, reasons = calculate_super_score(df, info)
Score ==
  /\ pc = "score"
  /\ result' = calculate_super_score(df, info)
  /\ IF result'.kind = "raise"
       THEN pc' = "crashed" /\ crash' = [at |-> "score", exc |-> result'.exc]
       ELSE pc' = "report" /\ crash' = crash
  /\ UNCHANGED <<df, info, shown>>

\* narrative = generate_narrative_summary(super_score), st.metric, the badge
ReportCard ==
  /\ pc = "report"
  /\ shown' = Report(result.score)
  /\ pc' = "done"
  /\ UNCHANGED <<df, info, result, crash>>

Next == get_data \/ RenderTitle \/ AvailabilityGuard \/ Score \/ ReportCard

Spec == Init /\ [][Next]_vars

(* -------------- calculate_super_score on its own (SpecScore) ---------- *)

\* Any frame or None, any metadata mapping or None, about to be scored.
InitScore ==
  /\ pc = "score"
  /\ df \in Frames \cup {None}
  /\ info \in Infos \cup {None}
  /\ result = Unset /\ crash = Unset /\ shown = Unset

NextScore == Score

SpecScore == InitScore /\ [][NextScore]_vars

(* ------- generate_narrative_summary and the badge on their own -------- *)

\* Any integer score of 0..MaxScore, about to be reported.
InitNarr ==
  /\ pc = "report"
  /\ df = Unset /\ info = Unset
  /\ result \in { Return(s, <<>>) : s \in 0..MaxScore }
  /\ crash = Unset /\ shown = Unset

NextNarr == ReportCard

SpecNarr == InitNarr /\ [][NextNarr]_vars

(* ------------------------------ claims -------------------------------- *)

\* calculate_super_score has been called on (df, info) and result holds its outcome.
Called == pc \in {"report", "crashed", "done"} /\ result # Unset

\* ... and it returned a (score, reasons) pair.
Returned == Called /\ result.kind = "return"

\* The call got a frame and a mapping, and the frame is not empty.
DataPresent == df # None /\ info # None /\ ~Empty(df)

Labels(reasons) == { reasons[j] : j \in 1..Len(reasons) }

\* The place of each reason string in the fixed rule order.
RuleRank(label) ==
  CASE label \in {"trend_up", "trend_down"} -> 1
    [] label = "ma_cross" -> 2
    [] label \in {"kd_gold", "kd_dead"} -> 3
    [] label \in {"mfi_obv", "mfi_oversold"} -> 4
    [] OTHER -> 5

\* C1: whenever calculate_super_score returns, the returned score is an
\* integer with 0 <= score <= 100.
C1_ScoreInRange == Returned => result.score \in 0..100

\* C1 witness: all five bullish rules fired (50+15+10+10+10+15 = 110) and the
\* call returned the clamped score.
C1_Witness ==
  /\ Returned /\ DataPresent
  /\ result.reasons = <<"trend_up", "ma_cross", "kd_gold", "mfi_obv", "short_squeeze">>
  /\ result.score = 100

\* C2: when df is None, df is empty or info is None, calculate_super_score
\* does not return a numeric score (never the default 50): the caller gets
\* an explicit unavailable outcome.
C2_UnavailableIsNotScored ==
  (Called /\ ~DataPresent) => result.kind # "return"

\* C4: given exactly one bar and non-null metadata, calculate_super_score
\* fails (the IndexError of df.iloc[-2]) rather than returning a score.
C4_OneBarFails ==
  (Called /\ DataPresent /\ NRows(df) = 1) => result = Raise("IndexError")

\* C4 witness: a call on a one-bar frame with a metadata mapping has failed.
C4_Witness ==
  Called /\ DataPresent /\ NRows(df) = 1 /\ result.kind = "raise"

\* The trigger condition of each reason string, read off the inputs.
Triggered(label, d, i) ==
  LET last == d.rows[NRows(d)]
      prev == d.rows[NRows(d) - 1]
  IN  CASE label = "trend_up" -> Gt(last["SMA_5"], last["SMA_50"])
        [] label = "trend_down" -> Lt(last["SMA_5"], last["SMA_50"])
        [] label = "ma_cross" ->
             Gt(last["SMA_5"], last["SMA_10"]) /\ Le(prev["SMA_5"], prev["SMA_10"])
        [] label = "kd_gold" ->
             /\ StochColumns \subseteq d.columns
             /\ Gt(last[k_line], last[d_line]) /\ Lt(last[k_line], Num(50))
        [] label = "kd_dead" ->
             /\ StochColumns \subseteq d.columns
             /\ Lt(last[k_line], last[d_line]) /\ Gt(last[k_line], Num(80))
        [] label = "mfi_obv" ->
             /\ Gt(last["MFI"], Num(80))
             /\ Gt(last["OBV"], d.rows[NRows(d) - 9]["OBV"])
        [] label = "mfi_oversold" -> Lt(last["MFI"], Num(20))
        [] OTHER -> Gt(Get(i, "shortPercentOfFloat", Num(0)), Num(20))

AllLabels ==
  {"trend_up", "trend_down", "ma_cross", "kd_gold", "kd_dead",
   "mfi_obv", "mfi_oversold", "short_squeeze"}

\* C5: the returned reasons hold one string for each rule whose trigger
\* condition held and none for the others, in the fixed order trend, MA
\* cross, KD, institutional, short risk.
C5_ReasonsMatchTriggers ==
  (Returned /\ DataPresent) =>
    /\ \A j \in 1..(Len(result.reasons) - 1) :
         RuleRank(result.reasons[j]) < RuleRank(result.reasons[j + 1])
    /\ \A label \in AllLabels :
         (label \in Labels(result.reasons)) <=> Triggered(label, df, info)

\* C5 witness: a proper subset of the rules triggered (no MA cross, no KD)
\* and the three strings came out in rule order.
C5_Witness ==
  /\ Returned /\ DataPresent
  /\ result.reasons = <<"trend_down", "mfi_oversold", "short_squeeze">>

\* C3: in the page flow, whenever get_data fails and returns (None, None)
\* the run neither shows a score nor ends in an unhandled error: it reaches
\* the availability guard and stops as "cannot analyze".
C3_FailedFetchEndsUnavailable ==
  (df = None /\ info = None) => (pc # "crashed" /\ shown = Unset)

\* A cell that holds no reading: the float NaN or the object None.
Absent(cell) == cell.t \in {"nan", "none"}

\* The frame d with the latest bar's cell of column col replaced.
WithLast(d, col, cell) == [d EXCEPT !.rows[NRows(d)][col] = cell]

\* The frame d with stochastic columns added where missing, K = D = 60
\* (K is not below 50, not above 80 and not across D: neither KD rule fires).
WithStoch(d) ==
  [columns |-> d.columns \cup StochColumns,
   rows |-> [j \in 1..NRows(d) |->
      [c \in d.columns \cup StochColumns |->
         IF c \in d.columns THEN d.rows[j][c] ELSE Num(60)]]]

\* A value of column col that triggers no rule on the latest bar: MFI 50
\* (between 20 and 80); for SMA_10 and SMA_50 the value of SMA_5 itself.
NeutralCell(d, col) ==
  IF col = "MFI" THEN Num(50)
  ELSE IF Absent(d.rows[NRows(d)]["SMA_5"]) THEN Num(1)
  ELSE d.rows[NRows(d)]["SMA_5"]

\* C6: an indicator field absent on the latest bar (NaN or None in column
\* MFI, SMA_10 or SMA_50, or the stochastic columns missing) raises no error
\* and gives the same score and reasons as the same input with a neutral
\* non-triggering value in that field.
C6_AbsentFieldIsNeutral ==
  (Called /\ DataPresent /\ NRows(df) >= 2) =>
    /\ \A col \in {"MFI", "SMA_10", "SMA_50"} :
         Absent(df.rows[NRows(df)][col]) =>
           result = calculate_super_score(WithLast(df, col, NeutralCell(df, col)), info)
    /\ ~(StochColumns \subseteq df.columns) =>
           result = calculate_super_score(WithStoch(df), info)

ShortKey == "shortPercentOfFloat"
ShortIs(i, cell) == ShortKey \in DOMAIN i /\ i[ShortKey] = cell
WithShort(cell) == [key \in {ShortKey} |-> cell]

\* C7: a metadata mapping whose shortPercentOfFloat has no numeric value
\* (key missing, or present with a null value) is scored as if it were 0:
\* no error, same score, same reasons.
C7_NullShortIsZero ==
  (Called /\ info # None /\ (ShortKey \notin DOMAIN info \/ info[ShortKey] = None)) =>
    result = calculate_super_score(df, WithShort(Num(0)))

\* C8: the institutional accumulation rule triggers exactly when the latest
\* MFI > 80 and the latest OBV is above the OBV of the bar 10 positions
\* before the latest bar; with fewer than 11 bars it is skipped and raises
\* no error.
C8_InstitutionalLookback ==
  (Called /\ DataPresent /\ NRows(df) >= 2) =>
    IF NRows(df) < 11
      THEN /\ result # Raise("IndexError")
           /\ result.kind = "return" => "mfi_obv" \notin Labels(result.reasons)
      ELSE result.kind = "return" =>
             ("mfi_obv" \in Labels(result.reasons) <=>
                /\ Gt(df.rows[NRows(df)]["MFI"], Num(80))
                /\ Gt(df.rows[NRows(df)]["OBV"], df.rows[NRows(df) - 10]["OBV"]))

\* C9 as claimed: with everything else equal, shortPercentOfFloat 0.25 scores
\* strictly more than 0.15, by exactly the 15 points of the short-risk bonus.
C9_ShortBonusExactly15 ==
  (Returned /\ DataPresent /\ ShortIs(info, Num(15))) =>
    LET r25 == calculate_super_score(df, WithShort(Num(25)))
    IN  /\ r25.kind = "return"
        /\ r25.score > result.score
        /\ r25.score = result.score + 15

\* C9 as amended: with everything else equal, on inputs on which the rules
\* run and the call returns, shortPercentOfFloat 0.25 scores strictly more
\* than 0.15, by 15 points or by what is left up to the cap of 100:
\* score(0.25) = min(100, score(0.15) + 15).
C9_ShortBonusUpToCap ==
  (Returned /\ DataPresent /\ ShortIs(info, Num(15))) =>
    LET r25 == calculate_super_score(df, WithShort(Num(25)))
    IN  /\ r25.kind = "return"
        /\ r25.score > result.score
        /\ r25.score = Min2(100, result.score + 15)

\* C9 witness: the other four rules all fired bullish (score 95 at 0.15), so
\* the bonus of 0.25 runs into the cap.
C9_Witness ==
  /\ Returned /\ DataPresent /\ ShortIs(info, Num(15))
  /\ result.score = 95
  /\ calculate_super_score(df, WithShort(Num(25))).score = 100

TierRank(tier) ==
  CASE tier = "avoid-risk" -> 1
    [] tier = "neutral-watch" -> 2
    [] tier = "cautious-optimistic" -> 3
    [] OTHER -> 4

\* The tier each badge stands for.
BadgeTier(b) ==
  CASE b = "success" -> "strong-buy"
    [] b = "warning" -> "cautious-optimistic"
    [] b = "info" -> "neutral-watch"
    [] OTHER -> "avoid-risk"

\* C10: every integer score of [0,100] gets exactly one of the four tiers
\* (strong-buy from 80, cautious-optimistic 65..79, neutral-watch 45..64,
\* avoid-risk 0..44), the tier never drops as the score rises, and the badge
\* shown for the score is in the narrative's tier.
C10_TiersPartitionAndAgree ==
  (pc = "done" /\ shown # Unset) =>
    LET s == shown.super_score
    IN  /\ s >= 80 => shown.narrative = "strong-buy"
        /\ s \in 65..79 => shown.narrative = "cautious-optimistic"
        /\ s \in 45..64 => shown.narrative = "neutral-watch"
        /\ s \in 0..44 => shown.narrative = "avoid-risk"
        /\ \A t \in 0..s :
             TierRank(generate_narrative_summary(t)) <= TierRank(shown.narrative)
        /\ BadgeTier(shown.badge) = shown.narrative

\* C10 witness: the report for a score on a band boundary has been shown.
C10_Witness ==
  /\ pc = "done" /\ shown # Unset
  /\ shown.super_score = 65
  /\ shown.narrative = "cautious-optimistic" /\ shown.badge = "warning"

====
